---- MODULE Spec2Model ----
(***************************************************************************)
(* WingSight: the motion-gated capture loop (scripts/detect_with_motion.py) *)
(* with its collaborators MotionDetector, PiCamera, BirdDetector and        *)
(* CSVLogger, modelled as a state machine.                                  *)
(*                                                                          *)
(* Spec        the program main() of detect_with_motion.py, one action per  *)
(*             statement group between two I/O calls, with the asynchronous *)
(*             KeyboardInterrupt as an action of its own.                   *)
(* MotionSpec  a MotionDetector on its own, for every configuration, under  *)
(*             arbitrary has_motion / reset calls.                          *)
(* UnitSpec    a PiCamera, a BirdDetector or a CSVLogger on its own, under  *)
(*             arbitrary calls of its methods.                              *)
(* AllSpec     the behaviours of Spec and of UnitSpec together.             *)
(* ReplaySpec  a MotionDetector fed a frame sequence, reset, and fed the    *)
(*             same sequence again.                                         *)
(***************************************************************************)
EXTENDS Integers, Naturals, Sequences, FiniteSets, TLC

VARIABLES
    pc,               \* position of main(); "unit" under MotionSpec, the class
                      \* under UnitSpec, "feed" or "replay" under ReplaySpec
    camera_type,      \* PiCamera.camera_type: "picamera2", "opencv" or None
    camera_handle,    \* PiCamera._camera: None, <<"picam2">> or <<"video", index>>
    backend_releases, \* how often the backend's close()/release() of the handle ran
    camera_opened,    \* TRUE once PiCamera() obtained a backend handle
    model_loaded,     \* detector.model is not None
    pixel_threshold,  \* MotionDetector.pixel_threshold
    motion_threshold, \* MotionDetector.motion_threshold, in percent
    blur_size,        \* MotionDetector.blur_size
    previous_frame,   \* MotionDetector.previous_frame (grayscale, blurred) or None
    last_call,        \* the method called last, under MotionSpec and UnitSpec
    frame,            \* local frame
    has_motion,       \* local has_motion
    motion_ratio,     \* local motion_ratio, as the number of changed pixels
    frame_count,      \* local frame_count
    motion_count,     \* local motion_count
    saved_count,      \* local saved_count
    last_save_time,   \* local last_save_time
    current_time,     \* local current_time
    time_since_last_save, \* local time_since_last_save
    objects,          \* local objects
    image_path,       \* local image_path
    now,              \* the system clock, in whole seconds
    images,           \* the image files present in the captures directory
    log_exists,       \* detections.csv exists
    log_rows,         \* the rows of detections.csv, header included
    exit_kind,        \* how main() ended: None while it runs
    arg_picam,        \* unit harness: the picamera2 outcome PiCamera() met
    arg_devices,      \* unit harness: the video devices PiCamera() met
    close_results,    \* the outcome of each PiCamera.close() call so far
    fed,              \* replay harness: the frames fed in the first run
    outputs,          \* replay harness: (has_motion, motion_ratio) of the first run
    replayed          \* replay harness: (has_motion, motion_ratio) after reset()

vars == <<pc, camera_type, camera_handle, backend_releases, camera_opened,
          model_loaded, pixel_threshold, motion_threshold, blur_size,
          previous_frame, last_call, frame, has_motion, motion_ratio,
          frame_count, motion_count, saved_count, last_save_time, current_time,
          time_since_last_save, objects, image_path, now, images, log_exists,
          log_rows, exit_kind, arg_picam, arg_devices, close_results, fed,
          outputs, replayed>>

motion_vars == <<pixel_threshold, motion_threshold, blur_size, previous_frame,
                 last_call>>
camera_vars == <<camera_type, camera_handle, backend_releases, camera_opened>>
count_vars  == <<frame_count, motion_count, saved_count>>
local_vars  == <<frame, has_motion, motion_ratio, current_time,
                 time_since_last_save, objects, image_path>>
disk_vars   == <<images, log_exists, log_rows>>
unit_vars   == <<arg_picam, arg_devices, close_results>>
replay_vars == <<fed, outputs, replayed>>

\* Nothing constructed, closed or fed yet.
HarnessIdle ==
    /\ arg_picam = "None" /\ arg_devices = <<>> /\ close_results = <<>>
    /\ fed = <<>> /\ outputs = <<>> /\ replayed = <<>>

\* Python's None: for a frame, a reference frame or a path (tuples in the model),
\* and for a string-valued field.
None == <<>>
NoneStr == "None"

(***************************************************************************)
(* Bounds of the model.                                                    *)
(***************************************************************************)
FrameWidth == 3     \* pixels of a frame (one row)
MaxFrames  == 3     \* ticks with a frame before the camera yields no more
MaxClock   == 26    \* the clock stops advancing here
MaxCalls   == 3     \* close() calls on one PiCamera in the unit harness
MaxRows    == 3     \* rows of the log file in the unit harness, header included
MaxFed     == 3     \* frames of a run in the replay harness

(***************************************************************************)
(* Frames: one row of FrameWidth RGB pixels.                               *)
(***************************************************************************)
Black == <<0, 0, 0>>
White == <<255, 255, 255>>
Blue  == <<0, 0, 255>>
Palette == {Black, White, Blue}
Uniform(c) == [i \in 1..FrameWidth |-> c]

\* The frames fed to a MotionDetector: every black-and-white pattern, and a
\* dark blue scene, whose luminance (29) differs from black by less than the
\* default pixel_threshold.
Frames == [1..FrameWidth -> {Black, White}] \cup {Uniform(Blue)}

\* cv2.cvtColor(frame, cv2.COLOR_RGB2GRAY): Y = 0.299 R + 0.587 G + 0.114 B in
\* 14-bit fixed point, rounded.
cvtColor(f) ==
    [i \in 1..FrameWidth |->
        (f[i][1] * 4899 + f[i][2] * 9617 + f[i][3] * 1868 + 8192) \div 16384]

\* Border handling of cv2.GaussianBlur (BORDER_REFLECT_101), 1-based index.
Reflect101(i, n) ==
    IF n = 1 THEN 1
    ELSE LET p == 2 * (n - 1)
             j == (i - 1) % p
         IN  IF j < n THEN j + 1 ELSE p - j + 1

\* The fixed kernels cv2.GaussianBlur uses for sigma = 0 and ksize 1, 3, 5.
Kernel(k) ==
    CASE k = 1 -> <<1>>
      [] k = 3 -> <<1, 2, 1>>
      [] k = 5 -> <<1, 4, 6, 4, 1>>

RECURSIVE SumSeq(_)
SumSeq(s) == IF s = <<>> THEN 0 ELSE Head(s) + SumSeq(Tail(s))

\* cv2.GaussianBlur(gray, (k, k), 0) on a one-row image.
GaussianBlur(g, k) ==
    LET w    == Kernel(k)
        tot  == SumSeq(w)
        half == (k - 1) \div 2
    IN  [i \in 1..FrameWidth |->
            (SumSeq([j \in 1..k |-> w[j] * g[Reflect101(i + j - 1 - half, FrameWidth)]])
               + tot \div 2) \div tot]

Abs(x) == IF x < 0 THEN -x ELSE x

\* cv2.absdiff(previous_frame, gray)
absdiff(a, b) == [i \in 1..FrameWidth |-> Abs(a[i] - b[i])]

\* A threshold that also marks a difference equal to pixel_threshold.
thresholdAtLeast(d, t) == [i \in 1..FrameWidth |-> IF d[i] >= t THEN 255 ELSE 0]

\* cv2.threshold(diff, pixel_threshold, 255, cv2.THRESH_BINARY)
threshold(d, t) == [i \in 1..FrameWidth |-> IF d[i] > t THEN 255 ELSE 0]

\* np.sum(thresh > 0)
ChangedPixels(th) == Cardinality({i \in 1..FrameWidth : th[i] > 0})

\* A strict comparison in place of >=.
RatioAbove(changed, total, thr) == changed * 100 > thr * total

\* motion_ratio >= self.motion_threshold, with motion_ratio = changed / total
\* and the threshold in percent.
RatioAtLeast(changed, total, thr) == changed * 100 >= thr * total

\* has_motion without the cold-start branch: a missing reference is taken to
\* be an all-black frame.
HasMotionNoColdStart(prev, f, pt, mt, bs) ==
    IF f = None
    THEN [prev |-> prev, has_motion |-> FALSE, changed |-> 0]
    ELSE LET gray == GaussianBlur(cvtColor(f), bs)
             ref  == IF prev = None THEN [i \in 1..FrameWidth |-> 0] ELSE prev
             changed == ChangedPixels(threshold(absdiff(ref, gray), pt))
         IN  [prev |-> gray,
              has_motion |-> RatioAtLeast(changed, FrameWidth, mt),
              changed |-> changed]

\* has_motion with a baseline reference: the reference is replaced on the
\* cold start and when motion is reported, and kept otherwise.
HasMotionKeepsBaseline(prev, f, pt, mt, bs) ==
    IF f = None
    THEN [prev |-> prev, has_motion |-> FALSE, changed |-> 0]
    ELSE LET gray == GaussianBlur(cvtColor(f), bs)
         IN  IF prev = None
             THEN [prev |-> gray, has_motion |-> FALSE, changed |-> 0]
             ELSE LET changed == ChangedPixels(threshold(absdiff(prev, gray), pt))
                      moved   == RatioAtLeast(changed, FrameWidth, mt)
                  IN  [prev |-> IF moved THEN gray ELSE prev,
                       has_motion |-> moved,
                       changed |-> changed]

\* MotionDetector.has_motion(f): the new previous_frame and the returned pair
\* (has_motion, number of changed pixels; motion_ratio = changed / FrameWidth).
HasMotionResult(prev, f, pt, mt, bs) ==
    IF f = None
    THEN [prev |-> prev, has_motion |-> FALSE, changed |-> 0]
    ELSE LET gray == GaussianBlur(cvtColor(f), bs)
         IN  IF prev = None
             THEN [prev |-> gray, has_motion |-> FALSE, changed |-> 0]
             ELSE LET changed == ChangedPixels(threshold(absdiff(prev, gray), pt))
                  IN  [prev |-> gray,
                       has_motion |-> RatioAtLeast(changed, FrameWidth, mt),
                       changed |-> changed]

(***************************************************************************)
(* MotionSpec: a MotionDetector of any configuration, driven by arbitrary  *)
(* calls.                                                                  *)
(***************************************************************************)
PixelThresholds  == {0, 30, 255}
MotionThresholds == {0, 1, 50, 100}
BlurSizes        == {1, 3, 5}

MotionInit ==
    /\ pc = "unit"
    /\ camera_type = NoneStr /\ camera_handle = None
    /\ backend_releases = 0 /\ camera_opened = FALSE
    /\ model_loaded = FALSE
    /\ pixel_threshold \in PixelThresholds
    /\ motion_threshold \in MotionThresholds
    /\ blur_size \in BlurSizes
    /\ previous_frame = None /\ last_call = "__init__"
    /\ frame = None /\ has_motion = FALSE /\ motion_ratio = 0
    /\ frame_count = 0 /\ motion_count = 0 /\ saved_count = 0
    /\ last_save_time = 0 /\ current_time = 0 /\ time_since_last_save = 0
    /\ objects = <<>> /\ image_path = None
    /\ now = 0
    /\ images = {} /\ log_exists = FALSE /\ log_rows = <<>>
    /\ exit_kind = NoneStr
    /\ HarnessIdle

\* motion_detector.has_motion(f) for any frame f, or None
CallHasMotion ==
    /\ pc = "unit"
    /\ \E f \in Frames \cup {None} :
          LET r == HasMotionResult(previous_frame, f, pixel_threshold,
                                   motion_threshold, blur_size)
          IN  /\ frame' = f
              /\ previous_frame' = r.prev
              /\ has_motion' = r.has_motion
              /\ motion_ratio' = r.changed
    /\ last_call' = "has_motion"
    /\ UNCHANGED <<unit_vars, replay_vars, pc, camera_vars, model_loaded, pixel_threshold, motion_threshold,
                   blur_size, count_vars, last_save_time, current_time,
                   time_since_last_save, objects, image_path, now, disk_vars,
                   exit_kind>>

\* motion_detector.reset()
CallReset ==
    /\ pc = "unit"
    /\ previous_frame' = None
    /\ last_call' = "reset"
    /\ UNCHANGED <<unit_vars, replay_vars, pc, camera_vars, model_loaded, pixel_threshold, motion_threshold,
                   blur_size, local_vars, count_vars, last_save_time, now,
                   disk_vars, exit_kind>>

MotionNext == CallHasMotion \/ CallReset

MotionSpec == MotionInit /\ [][MotionNext]_vars

(***************************************************************************)
(* PiCamera (src/wingsight/camera/pi_camera.py)                            *)
(***************************************************************************)
\* Outcome of the picamera2 attempt of _setup_camera: it works, the import
\* fails, or any other exception is raised while it is configured or started.
PicamOutcomes == {"ok", "ImportError", "Exception"}

\* What cv2.VideoCapture(index) gives for a device index: a capture that is not
\* opened, one that is opened but whose read() fails, one that delivers frames.
DeviceStates == {"closed", "noframe", "ok"}
VideoIndices == 0..3
Min(S) == CHOOSE x \in S : \A y \in S : x <= y

\* PiCamera._setup_opencv_fallback: the loop breaks at the first index that
\* isOpened(); one read() on it decides between success and failure.
SetupOpencvFallback(dev) ==
    LET opened == {i \in VideoIndices : dev[i] # "closed"}
    IN  IF opened = {}
        THEN [type |-> NoneStr, handle |-> None]
        ELSE IF dev[Min(opened)] = "ok"
             THEN [type |-> "opencv", handle |-> <<"video", Min(opened)>>]
             ELSE [type |-> NoneStr, handle |-> None]

\* A _setup_camera that gives up, without the fallback, on an exception other
\* than ImportError.
SetupCameraImportOnly(picam, dev) ==
    IF picam = "ok"
    THEN [type |-> "picamera2", handle |-> <<"picam2">>]
    ELSE IF picam = "ImportError"
         THEN SetupOpencvFallback(dev)
         ELSE [type |-> NoneStr, handle |-> None]

\* PiCamera._setup_camera: ImportError and every other exception both lead to
\* the OpenCV fallback.
SetupCamera(picam, dev) ==
    IF picam = "ok"
    THEN [type |-> "picamera2", handle |-> <<"picam2">>]
    ELSE SetupOpencvFallback(dev)

(***************************************************************************)
(* main() of scripts/detect_with_motion.py                                 *)
(***************************************************************************)
COOLDOWN_SECONDS == 10

\* The clock readings the model starts from, and by how much the clock may
\* have advanced between two readings.
ClockStarts == {4, 12}
ClockSteps  == {0, 3, 10}
Advance(t) == {t + d : d \in {e \in ClockSteps : t + e <= MaxClock}}

\* The frames the camera delivers: three uniform scenes and one with a bright
\* pixel at the left.
CameraFrames ==
    {Uniform(c) : c \in Palette}
      \cup {[i \in 1..FrameWidth |-> IF i = 1 THEN White ELSE Black]}

\* What detector.detect_all_objects may return: (label, confidence in percent).
DetectorResults ==
    { <<>>,
      << <<"bird", 80>> >>,
      << <<"cat", 60>>, <<"bird", 80>> >> }

\* CSVLogger._ensure_header: the header row.
Header == [kind |-> "header"]

\* A constructor that opens the file with "w" whether or not it exists.
EnsureHeaderAlways(exists, rows) == [exists |-> TRUE, rows |-> <<Header>>]

\* CSVLogger._ensure_header (lines 22-27): the file is opened with "w" and the
\* header written only when the file does not exist.
EnsureHeader(exists, rows) ==
    IF exists
    THEN [exists |-> TRUE, rows |-> rows]
    ELSE [exists |-> TRUE, rows |-> <<Header>>]

\* A detector that passes on what the model gives whether or not it is loaded.
DetectAllObjectsUnguarded(loaded, f, raises, out) ==
    IF f = None THEN <<>> ELSE IF raises THEN <<>> ELSE out

\* BirdDetector.detect_all_objects (lines 156-195): [] without a frame or
\* without a model, [] when the inference raises, else what the model found.
DetectAllObjects(loaded, f, raises, out) ==
    IF f = None \/ ~loaded
    THEN <<>>
    ELSE IF raises THEN <<>> ELSE out

\* The cooldown test with the elapsed seconds taken for milliseconds.
InCooldownMillis(cur, last) == (cur - last) * 1000 < COOLDOWN_SECONDS

\* A cooldown test that never holds a save back.
InCooldownNever(cur, last) == FALSE

\* Line 74: the cooldown test.
InCooldown(cur, last) == cur - last < COOLDOWN_SECONDS

\* Lines 88-91: "_".join of the first three labels, after the timestamp.
FirstN(s, n) == SubSeq(s, 1, IF Len(s) < n THEN Len(s) ELSE n)
Filename(ts, objs) == <<ts, [i \in 1..Len(FirstN(objs, 3)) |-> objs[i][1]]>>

\* CSVLogger.log_detection: the row written.
Row(ts, detection, confidence, path) ==
    [kind |-> "row", timestamp |-> ts, detection |-> detection,
     confidence |-> confidence, image_path |-> path]

Init ==
    /\ pc = "open_camera"
    /\ camera_type = NoneStr /\ camera_handle = None
    /\ backend_releases = 0 /\ camera_opened = FALSE
    /\ model_loaded = FALSE
    /\ pixel_threshold = 30 /\ motion_threshold = 1 /\ blur_size = 5
    /\ previous_frame = None /\ last_call = "__init__"
    /\ frame = None /\ has_motion = FALSE /\ motion_ratio = 0
    /\ frame_count = 0 /\ motion_count = 0 /\ saved_count = 0
    /\ last_save_time = 0 /\ current_time = 0 /\ time_since_last_save = 0
    /\ objects = <<>> /\ image_path = None
    /\ now \in ClockStarts
    /\ images = {}
    /\ log_exists \in BOOLEAN
    /\ log_rows = IF log_exists THEN <<Header>> ELSE <<>>
    /\ exit_kind = NoneStr
    /\ HarnessIdle

\* Line 26: camera = PiCamera(resolution=(640, 480), framerate=15)
OpenCamera ==
    /\ pc = "open_camera"
    /\ \E picam \in PicamOutcomes, dev \in [VideoIndices -> DeviceStates] :
          LET c == SetupCamera(picam, dev)
          IN  /\ camera_type' = c.type
              /\ camera_handle' = c.handle
              /\ camera_opened' = (c.handle # None)
    /\ pc' = "load_model"
    /\ UNCHANGED <<unit_vars, replay_vars, backend_releases, model_loaded, motion_vars, local_vars,
                   count_vars, last_save_time, now, disk_vars, exit_kind>>

\* Lines 27-41: the motion detector, the object detector, and the early return
\* when the model failed to load.
LoadModel ==
    /\ pc = "load_model"
    /\ \E loaded \in BOOLEAN :
          /\ model_loaded' = loaded
          /\ IF loaded
             THEN pc' = "make_logger" /\ UNCHANGED exit_kind
             ELSE pc' = "done" /\ exit_kind' = "return"
    /\ UNCHANGED <<unit_vars, replay_vars, camera_vars, motion_vars, local_vars, count_vars,
                   last_save_time, now, disk_vars>>

\* Line 42: logger = CSVLogger(log_file="detections.csv"); _ensure_header writes
\* the header when the file does not exist, and open() may raise.
MakeLogger ==
    /\ pc = "make_logger"
    /\ \/ /\ LET e == EnsureHeader(log_exists, log_rows)
             IN  log_exists' = e.exists /\ log_rows' = e.rows
          /\ pc' = "mkdir"
          /\ UNCHANGED <<images, exit_kind>>
       \/ /\ ~log_exists
          /\ pc' = "done"
          /\ exit_kind' = "raised"
          /\ UNCHANGED disk_vars
    /\ UNCHANGED <<unit_vars, replay_vars, camera_vars, model_loaded, motion_vars, local_vars,
                   count_vars, last_save_time, now>>

\* Lines 43-54: output_dir.mkdir(exist_ok=True), which may raise, and the
\* counters.
MakeOutputDir ==
    /\ pc = "mkdir"
    /\ \/ /\ pc' = "capture"
          /\ frame_count' = 0 /\ motion_count' = 0 /\ saved_count' = 0
          /\ last_save_time' = 0
          /\ UNCHANGED exit_kind
       \/ /\ pc' = "done"
          /\ exit_kind' = "raised"
          /\ UNCHANGED <<count_vars, last_save_time>>
    /\ UNCHANGED <<unit_vars, replay_vars, camera_vars, model_loaded, motion_vars, local_vars, now,
                   disk_vars>>

\* Line 58: frame = camera.capture_frame(). PiCamera.capture_frame returns None
\* without a camera, on a failed read and on any exception of the backend.
CaptureFrame ==
    /\ pc = "capture"
    /\ \E f \in CameraFrames \cup {None} :
          /\ f # None => camera_handle # None /\ frame_count < MaxFrames
          /\ frame' = f
          /\ pc' = IF f = None THEN "skip_sleep" ELSE "motion"
    /\ UNCHANGED <<unit_vars, replay_vars, camera_vars, model_loaded, motion_vars, has_motion,
                   motion_ratio, current_time, time_since_last_save, objects,
                   image_path, count_vars, last_save_time, now, disk_vars,
                   exit_kind>>

\* A failed capture that also drops the motion detector's reference frame.
SkipSleepResetsGate ==
    /\ pc = "skip_sleep"
    /\ pc' = "capture"
    /\ previous_frame' = None
    /\ UNCHANGED <<unit_vars, replay_vars, camera_vars, model_loaded, pixel_threshold, motion_threshold,
                   blur_size, last_call, local_vars, count_vars, last_save_time,
                   now, disk_vars, exit_kind>>

\* Lines 59-62: a failed capture is reported, the pacing wait is taken and the
\* loop continues.
SkipSleep ==
    /\ pc = "skip_sleep"
    /\ pc' = "capture"
    /\ UNCHANGED <<unit_vars, replay_vars, camera_vars, model_loaded, motion_vars, local_vars,
                   count_vars, last_save_time, now, disk_vars, exit_kind>>

\* Lines 65-77 and 106-109: the motion check, the motion counter, the clock
\* reading and the cooldown test.
CheckMotion ==
    /\ pc = "motion"
    /\ LET r == HasMotionResult(previous_frame, frame, pixel_threshold,
                                motion_threshold, blur_size)
       IN  /\ previous_frame' = r.prev
           /\ has_motion' = r.has_motion
           /\ motion_ratio' = r.changed
           /\ last_call' = "has_motion"
           /\ IF r.has_motion
              THEN /\ motion_count' = motion_count + 1
                   /\ \E t \in Advance(now) :
                         /\ now' = t
                         /\ current_time' = t
                         /\ time_since_last_save' = t - last_save_time
                         /\ pc' = IF InCooldown(t, last_save_time)
                                  THEN "tick_end" ELSE "detect"
              ELSE /\ pc' = "tick_end"
                   /\ UNCHANGED <<motion_count, now, current_time,
                                  time_since_last_save>>
    /\ UNCHANGED <<unit_vars, replay_vars, camera_vars, model_loaded, pixel_threshold, motion_threshold,
                   blur_size, frame, objects, image_path, frame_count,
                   saved_count, last_save_time, disk_vars, exit_kind>>

\* A detector call that restarts the cooldown whatever it returns.
DetectStampsCooldown ==
    /\ pc = "detect"
    /\ \E objs \in DetectorResults :
          /\ objs # <<>> => model_loaded
          /\ objects' = objs
          /\ pc' = IF objs # <<>> THEN "begin_save" ELSE "tick_end"
    /\ last_save_time' = current_time
    /\ UNCHANGED <<unit_vars, replay_vars, camera_vars, model_loaded, motion_vars, frame, has_motion,
                   motion_ratio, current_time, time_since_last_save, image_path,
                   count_vars, now, disk_vars, exit_kind>>

\* Lines 80-82 and 102-105: the object detector; an empty result ends the tick.
\* BirdDetector.detect_all_objects returns [] without a model and on any
\* exception.
Detect ==
    /\ pc = "detect"
    /\ \E raises \in BOOLEAN, out \in DetectorResults :
          LET objs == DetectAllObjects(model_loaded, frame, raises, out)
          IN  /\ objects' = objs
              /\ pc' = IF objs # <<>> THEN "begin_save" ELSE "tick_end"
    /\ UNCHANGED <<unit_vars, replay_vars, camera_vars, model_loaded, motion_vars, frame, has_motion,
                   motion_ratio, current_time, time_since_last_save, image_path,
                   count_vars, last_save_time, now, disk_vars, exit_kind>>

\* Lines 84-91: the save counter, the cooldown timestamp and the file name,
\* whose timestamp is a new reading of the clock.
BeginSave ==
    /\ pc = "begin_save"
    /\ saved_count' = saved_count + 1
    /\ last_save_time' = current_time
    /\ \E t \in Advance(now) :
          /\ now' = t
          /\ image_path' = Filename(t, objects)
    /\ pc' = "imwrite"
    /\ UNCHANGED <<unit_vars, replay_vars, camera_vars, model_loaded, motion_vars, frame, has_motion,
                   motion_ratio, current_time, time_since_last_save, objects,
                   frame_count, motion_count, disk_vars, exit_kind>>

\* Line 93: cv2.imwrite(...), whose result is not looked at: it stores the
\* file, or returns False and stores nothing.
WriteImage ==
    /\ pc = "imwrite"
    /\ \E ok \in BOOLEAN :
          images' = IF ok THEN images \cup {image_path} ELSE images
    /\ pc' = "log"
    /\ UNCHANGED <<unit_vars, replay_vars, camera_vars, model_loaded, motion_vars, local_vars,
                   count_vars, last_save_time, now, log_exists, log_rows,
                   exit_kind>>

\* Lines 96-101: logger.log_detection(primary_obj, primary_conf, path) appends
\* one row, or open()/write raises, which ends the loop in the handler of
\* line 119.
LogDetection ==
    /\ pc = "log"
    /\ \/ /\ log_rows' = Append(log_rows,
                                Row(now, objects[1][1], objects[1][2], image_path))
          /\ log_exists' = TRUE
          /\ pc' = "tick_end"
          /\ UNCHANGED exit_kind
       \/ /\ pc' = "except_exception"
          /\ exit_kind' = "Exception"
          /\ UNCHANGED <<log_exists, log_rows>>
    /\ UNCHANGED <<unit_vars, replay_vars, camera_vars, model_loaded, motion_vars, local_vars,
                   count_vars, last_save_time, now, images>>

\* An end of tick that counts the frame only when no motion was reported.
TickEndOnlyQuietTicks ==
    /\ pc = "tick_end"
    /\ frame_count' = IF has_motion THEN frame_count ELSE frame_count + 1
    /\ frame' = None /\ has_motion' = FALSE /\ motion_ratio' = 0
    /\ current_time' = 0 /\ time_since_last_save' = 0
    /\ objects' = <<>> /\ image_path' = None
    /\ pc' = "capture"
    /\ UNCHANGED <<unit_vars, replay_vars, camera_vars, model_loaded, motion_vars, motion_count,
                   saved_count, last_save_time, now, disk_vars, exit_kind>>

\* Lines 111-112: the frame counter and the pacing wait; the locals of the
\* tick are dead from here on (each is assigned again before it is read).
TickEnd ==
    /\ pc = "tick_end"
    /\ frame_count' = frame_count + 1
    /\ frame' = None /\ has_motion' = FALSE /\ motion_ratio' = 0
    /\ current_time' = 0 /\ time_since_last_save' = 0
    /\ objects' = <<>> /\ image_path' = None
    /\ pc' = "capture"
    /\ UNCHANGED <<unit_vars, replay_vars, camera_vars, model_loaded, motion_vars, motion_count,
                   saved_count, last_save_time, now, disk_vars, exit_kind>>

\* The statements of the try block (lines 56-112), where a KeyboardInterrupt
\* is caught by line 114, and those before it (lines 27-55), where it is not.
TryPcs == {"capture", "skip_sleep", "motion", "detect", "begin_save",
           "imwrite", "log", "tick_end"}
SetupPcs == {"load_model", "make_logger", "mkdir"}

\* Ctrl+C: Python raises KeyboardInterrupt in the main thread between any two
\* bytecodes, so after any statement of the try block.
Interrupt ==
    /\ pc \in TryPcs
    /\ pc' = "except_kbd"
    /\ exit_kind' = "KeyboardInterrupt"
    /\ UNCHANGED <<unit_vars, replay_vars, camera_vars, model_loaded, motion_vars, local_vars,
                   count_vars, last_save_time, now, disk_vars>>

\* Ctrl+C before the try block is entered: nothing catches it.
InterruptSetup ==
    /\ pc \in SetupPcs
    /\ pc' = "done"
    /\ exit_kind' = "KeyboardInterrupt"
    /\ UNCHANGED <<unit_vars, replay_vars, camera_vars, model_loaded, motion_vars, local_vars,
                   count_vars, last_save_time, now, disk_vars>>

\* Lines 114-122: both handlers print and fall through to finally.
Handler ==
    /\ pc \in {"except_kbd", "except_exception"}
    /\ pc' = "finally"
    /\ UNCHANGED <<unit_vars, replay_vars, camera_vars, model_loaded, motion_vars, local_vars,
                   count_vars, last_save_time, now, disk_vars, exit_kind>>

\* A close() without the finally clause: the handle stays when the backend
\* call raises.
CloseKeepsHandleOnError(handle, releases, raises) ==
    IF handle = None
    THEN [handle |-> None, releases |-> releases, raised |-> FALSE]
    ELSE [handle |-> IF raises THEN handle ELSE None,
          releases |-> releases + 1, raised |-> raises]

\* PiCamera.close (lines 129-141): nothing without a camera; otherwise the
\* backend's close() or release() is called once, and _camera is None
\* afterwards even when that call raises (the exception then leaves close()).
Close(handle, releases, raises) ==
    IF handle = None
    THEN [handle |-> None, releases |-> releases, raised |-> FALSE]
    ELSE [handle |-> None, releases |-> releases + 1, raised |-> raises]

\* What a close() call is recorded as in close_results.
CloseResult(c) == IF c.raised THEN "raised" ELSE "ok"

\* Lines 123-125: finally: camera.close(); an exception of the backend's
\* close leaves main().
Finally ==
    /\ pc = "finally"
    /\ \E raises \in BOOLEAN :
          LET c == Close(camera_handle, backend_releases, raises)
          IN  /\ camera_handle' = c.handle
              /\ backend_releases' = c.releases
              /\ close_results' = Append(close_results, CloseResult(c))
              /\ exit_kind' = IF c.raised THEN "raised" ELSE exit_kind
    /\ pc' = "done"
    /\ UNCHANGED <<arg_picam, arg_devices, replay_vars, camera_type,
                   camera_opened, model_loaded, motion_vars, local_vars,
                   count_vars, last_save_time, now, disk_vars>>

Next ==
    \/ OpenCamera \/ LoadModel \/ MakeLogger \/ MakeOutputDir
    \/ CaptureFrame \/ SkipSleep \/ CheckMotion \/ Detect
    \/ BeginSave \/ WriteImage \/ LogDetection \/ TickEnd
    \/ Interrupt \/ InterruptSetup \/ Handler \/ Finally

Spec == Init /\ [][Next]_vars

(***************************************************************************)
(* UnitSpec: one of PiCamera, BirdDetector and CSVLogger on its own, under *)
(* arbitrary calls of its methods; pc names the class.                     *)
(***************************************************************************)
Units == {"PiCamera", "BirdDetector", "CSVLogger"}

\* What detections.csv may hold before the first constructor call: no file,
\* the header, or the header and a row of an earlier run.
EarlierLogs ==
    { <<>>, <<Header>>,
      <<Header, Row(0, "bird", 80, Filename(0, << <<"bird", 80>> >>))>> }

UnitInit ==
    /\ pc \in Units
    /\ camera_type = NoneStr /\ camera_handle = None
    /\ backend_releases = 0 /\ camera_opened = FALSE
    /\ model_loaded \in (IF pc = "BirdDetector" THEN BOOLEAN ELSE {FALSE})
    /\ pixel_threshold = 30 /\ motion_threshold = 1 /\ blur_size = 5
    /\ previous_frame = None /\ last_call = "__init__"
    /\ frame = None /\ has_motion = FALSE /\ motion_ratio = 0
    /\ frame_count = 0 /\ motion_count = 0 /\ saved_count = 0
    /\ last_save_time = 0 /\ current_time = 0 /\ time_since_last_save = 0
    /\ objects = <<>> /\ image_path = None
    /\ now = 1
    /\ images = {}
    /\ log_rows \in (IF pc = "CSVLogger" THEN EarlierLogs ELSE {<<>>})
    /\ log_exists = (log_rows # <<>>)
    /\ exit_kind = NoneStr
    /\ HarnessIdle

\* PiCamera(...): __init__ calls _setup_camera; it returns whatever happens.
NewPiCamera ==
    /\ pc = "PiCamera"
    /\ arg_picam = NoneStr
    /\ \E picam \in PicamOutcomes, dev \in [VideoIndices -> DeviceStates] :
          LET c == SetupCamera(picam, dev)
          IN  /\ arg_picam' = picam
              /\ arg_devices' = dev
              /\ camera_type' = c.type
              /\ camera_handle' = c.handle
              /\ camera_opened' = (c.handle # None)
    /\ last_call' = "PiCamera"
    /\ UNCHANGED <<pc, backend_releases, close_results, replay_vars,
                   model_loaded, pixel_threshold, motion_threshold, blur_size,
                   previous_frame, local_vars, count_vars, last_save_time, now,
                   disk_vars, exit_kind>>

\* camera.close(), any number of times.
CallClose ==
    /\ pc = "PiCamera"
    /\ arg_picam # NoneStr
    /\ Len(close_results) < MaxCalls
    /\ \E raises \in BOOLEAN :
          LET c == Close(camera_handle, backend_releases, raises)
          IN  /\ camera_handle' = c.handle
              /\ backend_releases' = c.releases
              /\ close_results' = Append(close_results, CloseResult(c))
    /\ last_call' = "close"
    /\ UNCHANGED <<pc, arg_picam, arg_devices, replay_vars, camera_type,
                   camera_opened, model_loaded, pixel_threshold,
                   motion_threshold, blur_size, previous_frame, local_vars,
                   count_vars, last_save_time, now, disk_vars, exit_kind>>

\* detector.detect_all_objects(f) for a frame or None, with or without a model.
CallDetectAllObjects ==
    /\ pc = "BirdDetector"
    /\ \E f \in CameraFrames \cup {None}, raises \in BOOLEAN,
          out \in DetectorResults :
          /\ frame' = f
          /\ objects' = DetectAllObjects(model_loaded, f, raises, out)
    /\ last_call' = "detect_all_objects"
    /\ UNCHANGED <<pc, unit_vars, replay_vars, camera_vars, model_loaded,
                   pixel_threshold, motion_threshold, blur_size,
                   previous_frame, has_motion, motion_ratio, current_time,
                   time_since_last_save, image_path, count_vars,
                   last_save_time, now, disk_vars, exit_kind>>

\* CSVLogger(log_file): __init__ calls _ensure_header, whose open() may raise.
NewCSVLogger ==
    /\ pc = "CSVLogger"
    /\ \/ /\ LET e == EnsureHeader(log_exists, log_rows)
             IN  log_exists' = e.exists /\ log_rows' = e.rows
          /\ last_call' = "CSVLogger"
       \/ /\ ~log_exists
          /\ last_call' = "CSVLogger raised"
          /\ UNCHANGED <<log_exists, log_rows>>
    /\ UNCHANGED <<pc, unit_vars, replay_vars, camera_vars, model_loaded,
                   pixel_threshold, motion_threshold, blur_size,
                   previous_frame, local_vars, count_vars, last_save_time, now,
                   images, exit_kind>>

\* logger.log_detection(label, confidence, path) on a logger of this file:
\* the row is appended with open(..., "a"), or open()/write raises.
CallLogDetection ==
    /\ pc = "CSVLogger"
    /\ log_exists
    /\ Len(log_rows) < MaxRows
    /\ \/ /\ \E d \in {<<"bird", 80>>, <<"cat", 60>>} :
                log_rows' = Append(log_rows,
                                   Row(now, d[1], d[2], Filename(now, <<d>>)))
          /\ last_call' = "log_detection"
       \/ /\ last_call' = "log_detection raised"
          /\ UNCHANGED log_rows
    /\ UNCHANGED <<pc, unit_vars, replay_vars, camera_vars, model_loaded,
                   pixel_threshold, motion_threshold, blur_size,
                   previous_frame, local_vars, count_vars, last_save_time, now,
                   images, log_exists, exit_kind>>

UnitNext ==
    \/ NewPiCamera \/ CallClose \/ CallDetectAllObjects
    \/ NewCSVLogger \/ CallLogDetection

UnitSpec == UnitInit /\ [][UnitNext]_vars

\* The program and the classes on their own, side by side.
AllSpec == (Init \/ UnitInit) /\ [][Next \/ UnitNext]_vars

(***************************************************************************)
(* ReplaySpec: a MotionDetector of any configuration is fed a sequence of  *)
(* frames, reset() is called, and the same sequence is fed again.          *)
(***************************************************************************)
ReplayInit ==
    /\ pc = "feed"
    /\ camera_type = NoneStr /\ camera_handle = None
    /\ backend_releases = 0 /\ camera_opened = FALSE
    /\ model_loaded = FALSE
    /\ pixel_threshold \in PixelThresholds
    /\ motion_threshold \in MotionThresholds
    /\ blur_size \in BlurSizes
    /\ previous_frame = None /\ last_call = "__init__"
    /\ frame = None /\ has_motion = FALSE /\ motion_ratio = 0
    /\ frame_count = 0 /\ motion_count = 0 /\ saved_count = 0
    /\ last_save_time = 0 /\ current_time = 0 /\ time_since_last_save = 0
    /\ objects = <<>> /\ image_path = None
    /\ now = 0
    /\ images = {} /\ log_exists = FALSE /\ log_rows = <<>>
    /\ exit_kind = NoneStr
    /\ HarnessIdle

\* First run: has_motion(f) on the new detector, the frame and the returned
\* pair being kept.
Feed ==
    /\ pc = "feed"
    /\ Len(fed) < MaxFed
    /\ \E f \in CameraFrames \cup {None} :
          LET r == HasMotionResult(previous_frame, f, pixel_threshold,
                                   motion_threshold, blur_size)
          IN  /\ frame' = f
              /\ previous_frame' = r.prev
              /\ has_motion' = r.has_motion
              /\ motion_ratio' = r.changed
              /\ fed' = Append(fed, f)
              /\ outputs' = Append(outputs, <<r.has_motion, r.changed>>)
    /\ last_call' = "has_motion"
    /\ UNCHANGED <<pc, unit_vars, replayed, camera_vars, model_loaded,
                   pixel_threshold, motion_threshold, blur_size, current_time,
                   time_since_last_save, objects, image_path, count_vars,
                   last_save_time, now, disk_vars, exit_kind>>

\* The second run starts without reset() having been called.
ReplayWithoutReset ==
    /\ pc = "feed"
    /\ fed # <<>>
    /\ pc' = "replay"
    /\ last_call' = "reset"
    /\ UNCHANGED <<unit_vars, replay_vars, camera_vars, model_loaded,
                   pixel_threshold, motion_threshold, blur_size,
                   previous_frame, local_vars, count_vars, last_save_time, now,
                   disk_vars, exit_kind>>

\* motion_detector.reset() (lines 81-83) at the end of the first run.
ResetForReplay ==
    /\ pc = "feed"
    /\ fed # <<>>
    /\ previous_frame' = None
    /\ pc' = "replay"
    /\ last_call' = "reset"
    /\ UNCHANGED <<unit_vars, replay_vars, camera_vars, model_loaded,
                   pixel_threshold, motion_threshold, blur_size, local_vars,
                   count_vars, last_save_time, now, disk_vars, exit_kind>>

\* Second run: has_motion on the next frame of the first run.
Replay ==
    /\ pc = "replay"
    /\ Len(replayed) < Len(fed)
    /\ LET f == fed[Len(replayed) + 1]
           r == HasMotionResult(previous_frame, f, pixel_threshold,
                                motion_threshold, blur_size)
       IN  /\ frame' = f
           /\ previous_frame' = r.prev
           /\ has_motion' = r.has_motion
           /\ motion_ratio' = r.changed
           /\ replayed' = Append(replayed, <<r.has_motion, r.changed>>)
    /\ last_call' = "has_motion"
    /\ UNCHANGED <<pc, unit_vars, fed, outputs, camera_vars, model_loaded,
                   pixel_threshold, motion_threshold, blur_size, current_time,
                   time_since_last_save, objects, image_path, count_vars,
                   last_save_time, now, disk_vars, exit_kind>>

ReplayNext == Feed \/ ResetForReplay \/ Replay

ReplaySpec == ReplayInit /\ [][ReplayNext]_vars

(***************************************************************************)
(* The claims.                                                             *)
(***************************************************************************)
SaveState == <<images, log_rows, last_save_time, saved_count>>
DataRows == SelectSeq(log_rows, LAMBDA r : r.kind = "row")
RowsFor(p) == {i \in DOMAIN DataRows : DataRows[i].image_path = p}
TickBoundary == {"capture", "skip_sleep"}

\* C1: no image is written and no log row is appended on a tick whose
\* now - last_save_time (the local time_since_last_save of that tick) is below
\* COOLDOWN_SECONDS: every step of the loop that writes an image or appends a
\* row belongs to a tick with motion whose time_since_last_save is at least
\* COOLDOWN_SECONDS.
C1_NoSaveWithinCooldown ==
    [][(images' # images \/ (pc \in TryPcs /\ log_rows' # log_rows))
          => /\ has_motion
             /\ time_since_last_save >= COOLDOWN_SECONDS
             /\ time_since_last_save' = time_since_last_save]_vars

\* C1, its case: a second motion event 3 seconds after a save was suppressed,
\* and there is exactly one save.
C1_Witness ==
    /\ pc = "tick_end" /\ has_motion /\ time_since_last_save = 3
    /\ saved_count = 1 /\ Len(DataRows) = 1 /\ Cardinality(images) = 1

\* C2 (as claimed): at every tick boundary and after main() has ended, every
\* image in the captures directory has exactly one row in the detection log.
C2_EveryImageHasOneRow ==
    pc \in TickBoundary \cup {"done"}
        => \A p \in images : Cardinality(RowsFor(p)) = 1

\* C3 (as claimed): the image named by a row of the detection log exists (no
\* image is ever removed, so it exists from the moment the row is appended).
C3_LoggedImageExists ==
    \A i \in DOMAIN DataRows : DataRows[i].image_path \in images

\* C4: on a tick with motion and expired cooldown on which the detector
\* returns an empty list, the detector step goes to the end of the tick, and
\* neither it nor the end of that tick writes an image, appends a row or
\* changes last_save_time or saved_count.
C4_EmptyResultNoSave ==
    [][/\ (pc = "detect" /\ pc' # "except_kbd" /\ objects' = <<>>)
             => (pc' = "tick_end" /\ UNCHANGED SaveState)
       /\ (pc = "tick_end" /\ has_motion
             /\ time_since_last_save >= COOLDOWN_SECONDS /\ objects = <<>>)
             => UNCHANGED SaveState]_vars

\* C4, its case: after one save, a later tick with motion and expired cooldown
\* got an empty detector result.
C4_Witness ==
    /\ pc = "tick_end" /\ has_motion /\ objects = <<>>
    /\ time_since_last_save >= COOLDOWN_SECONDS /\ saved_count = 1

\* C5 (as claimed): the statements that handle a failed capture count the
\* skipped tick (some counter changes) and leave the reference frame, the
\* cooldown timestamp and the log alone.
C5_FailedCaptureIsCounted ==
    [][(pc = "skip_sleep" /\ pc' = "capture")
          => /\ count_vars' # count_vars
             /\ UNCHANGED <<previous_frame, last_save_time, log_rows>>]_vars

\* C5 (amended): a failed capture goes to the pacing wait and from there to
\* the next capture (unless interrupted); neither step changes the reference
\* frame, the cooldown timestamp, the log, the images or any counter.
C5_FailedCaptureSkipsTick ==
    [][/\ (pc = "capture" /\ frame' = None /\ pc' # "except_kbd")
             => /\ pc' = "skip_sleep"
                /\ UNCHANGED <<previous_frame, last_save_time, log_rows, images,
                               count_vars>>
       /\ pc = "skip_sleep"
             => /\ pc' \in {"capture", "except_kbd"}
                /\ UNCHANGED <<previous_frame, last_save_time, log_rows, images,
                               count_vars>>]_vars

\* C5, its case: a capture failed after frames were seen and an image was
\* saved.
C5_Witness ==
    /\ pc = "skip_sleep" /\ previous_frame # None
    /\ saved_count = 1 /\ frame_count = 2

\* C6: a has_motion call with a frame on a detector that holds no reference
\* returns (False, 0.0) and stores the grayscale, blurred frame as reference
\* (the steps with last_call' = "has_motion" are the has_motion calls).
C6_ColdStartNoMotion ==
    [][(last_call' = "has_motion" /\ previous_frame = None)
          => /\ has_motion' = FALSE
             /\ motion_ratio' = 0
             /\ frame' # None
                  => previous_frame' = GaussianBlur(cvtColor(frame'), blur_size)]_vars

\* C6, its case: with motion_threshold 0 every call that has a reference
\* reports motion, so this state is one right after a cold-start call.
C6_Witness ==
    /\ last_call = "has_motion" /\ motion_threshold = 0 /\ frame = Uniform(White)
    /\ ~has_motion /\ motion_ratio = 0
    /\ previous_frame = Uniform(255)

\* C7 (as claimed): after every has_motion call, motion_ratio is in [0,1] and
\* has_motion holds exactly if motion_ratio >= motion_threshold (motion_ratio
\* is motion_ratio / FrameWidth here, motion_threshold is in percent).
C7_MotionIffRatioAtLeast ==
    last_call = "has_motion"
        => /\ motion_ratio \in 0..FrameWidth
           /\ has_motion <=> (motion_ratio * 100 >= motion_threshold * FrameWidth)

\* C7 (amended): every has_motion call returns motion_ratio in [0,1]; a call
\* that compares a frame with a held reference returns has_motion exactly if
\* motion_ratio >= motion_threshold; a cold-start call and a call with a None
\* frame return (False, 0.0), which agrees with the equivalence exactly when
\* motion_threshold > 0.
C7_MotionIffRatioWithReference ==
    [][last_call' = "has_motion"
          => /\ motion_ratio' \in 0..FrameWidth
             /\ IF previous_frame = None \/ frame' = None
                THEN ~has_motion' /\ motion_ratio' = 0
                ELSE has_motion'
                       <=> (motion_ratio' * 100 >= motion_threshold * FrameWidth)
             /\ motion_threshold > 0
                  => (has_motion'
                        <=> (motion_ratio' * 100 >= motion_threshold * FrameWidth))]_vars

\* C7, its case: with motion_threshold 1.0 a call reported motion because
\* every pixel changed.
C7_Witness ==
    /\ last_call = "has_motion" /\ has_motion
    /\ motion_threshold = 100 /\ motion_ratio = FrameWidth

\* C8 (as claimed): at the end of a tick that attempted a save, and in the
\* handler of a failed log write, last_save_time has this tick's value only
\* if the image was stored and its row appended.
C8_CooldownOnlyOnSuccessfulSave ==
    (pc \in {"tick_end", "except_exception"} /\ objects # <<>>
        /\ last_save_time = current_time)
        => (image_path \in images /\ RowsFor(image_path) # {})

\* C9 (as claimed): a KeyboardInterrupt ends the loop only at a tick boundary
\* (before the capture or in a pacing wait), never between the capture and the
\* end of a tick.
C9_InterruptOnlyAtTickBoundary ==
    [][pc' = "except_kbd" => pc \in TickBoundary]_vars

\* C10 (as claimed): when main() has ended and PiCamera() had obtained a
\* camera, the backend's close()/release() has run exactly once.
C10_CameraReleasedOnEveryExit ==
    (pc = "done" /\ camera_opened) => backend_releases = 1

\* C11 (as claimed): a failed image write or a failed log append does not end
\* the capture loop: from the image write the tick goes on to the log append,
\* and from the log append to the end of the tick.
C11_PersistenceFailureKeepsLoop ==
    [][(pc \in {"imwrite", "log"} /\ pc' # "except_kbd")
          => pc' \in {"imwrite", "log", "tick_end"}]_vars

\* C12 (as claimed): no statement of the capture loop runs with a camera
\* that could not be initialised.
C12_NoTickWithoutCamera ==
    pc \in TryPcs => camera_handle # None

\* C17 (as claimed): on a tick that reaches the save, the image write stores
\* exactly one new image and the log append adds exactly one row, which
\* carries the label and confidence of the first element of the result.
C17_OneImageOneRowOfFirstElement ==
    [][/\ (pc = "imwrite" /\ pc' # "except_kbd")
              => (image_path \notin images
                     /\ images' = images \cup {image_path})
       /\ (pc = "log" /\ pc' # "except_kbd")
              => (/\ Len(log_rows') = Len(log_rows) + 1
                  /\ log_rows'[Len(log_rows')].detection = objects[1][1]
                  /\ log_rows'[Len(log_rows')].confidence = objects[1][2])
      ]_vars

\* C20: the object detector is about to be called (line 80) only on a tick
\* that obtained a frame, on which the motion gate reported motion, and on
\* which the cooldown has expired.
C20_DetectorOnlyAfterFrameMotionCooldown ==
    pc = "detect"
        => (/\ frame # None
            /\ has_motion
            /\ current_time - last_save_time >= COOLDOWN_SECONDS
            /\ time_since_last_save = current_time - last_save_time)

\* C20 witness: the detector is called on a tick after an earlier save, the
\* cooldown of that save having expired.
C20_Witness ==
    pc = "detect" /\ saved_count >= 1 /\ last_save_time > 0

\* C13 (as claimed): a model that failed to load never aborts main(): after
\* the detector is constructed main() goes on to the logger and the loop.
C13_UnavailableModelKeepsLoopRunning ==
    [][(pc = "load_model" /\ exit_kind' # "KeyboardInterrupt")
          => pc' = "make_logger"]_vars

\* C13 (amended): detect_all_objects returns the empty list on every call
\* made without a model; main() does not rely on it: without a model it
\* returns before the logger is made, so no statement of the loop runs and
\* nothing is saved without a model.
C13_UnavailableModelEmptyResultAndEarlyReturn ==
    /\ (pc = "BirdDetector" /\ last_call = "detect_all_objects"
           /\ ~model_loaded) => objects = <<>>
    /\ (pc \in TryPcs \cup {"make_logger", "mkdir", "except_kbd",
                            "except_exception", "finally"}) => model_loaded
    /\ (pc = "done" /\ ~model_loaded)
          => (/\ exit_kind \in {"return", "KeyboardInterrupt"}
              /\ frame_count = 0 /\ saved_count = 0 /\ images = {}
              /\ DataRows = <<>>)

\* C13 witness: detect_all_objects was called with a frame on a detector
\* that has no model.
C13_Witness ==
    /\ pc = "BirdDetector" /\ last_call = "detect_all_objects"
    /\ ~model_loaded /\ frame # None

\* C14: whatever the number of close() calls on a PiCamera, the backend's
\* close()/release() has run at most once (exactly once after the first call
\* when a camera had been obtained), the handle is gone after the first call,
\* and no call after the first raises, also when the first one raised.
C14_CloseIdempotent ==
    /\ backend_releases <= 1
    /\ close_results # <<>>
          => (/\ camera_handle = None
              /\ backend_releases = (IF camera_opened THEN 1 ELSE 0))
    /\ \A i \in 2..Len(close_results) : close_results[i] = "ok"

\* C14 witness: the first close() raised in the backend and was followed by
\* further close() calls.
C14_Witness ==
    /\ Len(close_results) = MaxCalls
    /\ close_results[1] = "raised"
    /\ backend_releases = 1

\* C15: after reset() the same frames give the same (has_motion,
\* motion_ratio) pairs as in the first run, and the first call after reset()
\* is a cold start.
C15_ResetReplaysFirstRun ==
    /\ \A i \in 1..Len(replayed) : replayed[i] = outputs[i]
    /\ Len(replayed) >= 1 => replayed[1] = <<FALSE, 0>>

\* C15 witness: a whole run with motion in it has been replayed after
\* reset().
C15_Witness ==
    /\ pc = "replay" /\ Len(fed) >= 2 /\ Len(replayed) = Len(fed)
    /\ \E i \in 1..Len(outputs) : outputs[i][1]

\* C16 (as claimed): in every configuration the second of two identical
\* frames fed consecutively gives has_motion = False.
C16_IdenticalFramesNoMotion ==
    \A i \in 1..(Len(fed) - 1) :
        (fed[i] # None /\ fed[i + 1] = fed[i]) => outputs[i + 1][1] = FALSE

\* C16 (amended): the second of two identical frames fed consecutively has
\* no changed pixel (motion_ratio 0), and has_motion is False exactly when
\* motion_threshold > 0: with motion_threshold = 0 it is True.
C16_IdenticalFramesRatioZero ==
    \A i \in 1..(Len(fed) - 1) :
        (fed[i] # None /\ fed[i + 1] = fed[i])
            => outputs[i + 1] = <<motion_threshold = 0, 0>>

\* C16 witness: two identical frames were fed consecutively to a detector
\* with pixel_threshold 0 and a positive motion_threshold.
C16_Witness ==
    /\ motion_threshold > 0 /\ pixel_threshold = 0
    /\ \E i \in 1..(Len(fed) - 1) : fed[i] # None /\ fed[i + 1] = fed[i]

\* C18: no step removes or changes a row of the log; a constructor call
\* writes the header when the file is absent and nothing otherwise; a
\* log_detection call that returns adds exactly one data row at the end, one
\* that raises adds nothing; the file never holds a second header.
C18_LogAppendOnly ==
    [][/\ Len(log_rows') >= Len(log_rows)
       /\ SubSeq(log_rows', 1, Len(log_rows)) = log_rows
       /\ last_call' = "CSVLogger"
             => log_rows' = (IF log_exists THEN log_rows ELSE <<Header>>)
       /\ last_call' = "log_detection"
             => (/\ Len(log_rows') = Len(log_rows) + 1
                 /\ log_rows'[Len(log_rows')].kind = "row")
       /\ last_call' \in {"CSVLogger raised", "log_detection raised"}
             => log_rows' = log_rows
       /\ \A i \in 2..Len(log_rows') : log_rows'[i].kind = "row"
      ]_vars

\* C18 witness: a CSVLogger was constructed on a file that already held the
\* header and rows written by log_detection.
C18_Witness ==
    /\ pc = "CSVLogger" /\ last_call = "CSVLogger"
    /\ Len(log_rows) = MaxRows
    /\ log_rows[1] = Header
    /\ log_rows[MaxRows].kind = "row" /\ log_rows[MaxRows].timestamp = now

\* C19 (as claimed): a picamera2 initialisation that fails with an exception
\* other than ImportError does not lead to the OpenCV backend.
C19_FallbackOnlyWhenUnavailable ==
    arg_picam = "Exception" => camera_type # "opencv"

\* C19 (amended): the OpenCV fallback is attempted whenever the picamera2
\* initialisation does not complete, on ImportError and on any other
\* exception alike; it is not attempted when picamera2 starts.
C19_FallbackOnAnyFailure ==
    /\ arg_picam = "ok" => camera_type = "picamera2"
    /\ arg_picam \in {"ImportError", "Exception"}
          => (/\ camera_type = SetupOpencvFallback(arg_devices).type
              /\ close_results = <<>>
                    => camera_handle = SetupOpencvFallback(arg_devices).handle)

\* C19 witness: picamera2 raised an exception other than ImportError and the
\* camera is an OpenCV capture.
C19_Witness ==
    arg_picam = "Exception" /\ camera_type = "opencv" /\ camera_handle # None

\* C21: after every has_motion call on a frame, motion reported or not, the
\* reference is that frame, grayscale and blurred: one frame of FrameWidth
\* gray levels; and the changed pixels returned by the call are those between
\* the reference left by the preceding call on a frame and the new one.
C21_ReferenceIsLastFrame ==
    [][(last_call' = "has_motion" /\ frame' # None)
          => (/\ previous_frame' = GaussianBlur(cvtColor(frame'), blur_size)
              /\ DOMAIN previous_frame' = 1..FrameWidth
              /\ \A i \in 1..FrameWidth : previous_frame'[i] \in 0..255
              /\ previous_frame # None
                    => motion_ratio' =
                          Cardinality({i \in 1..FrameWidth :
                              Abs(previous_frame[i] - previous_frame'[i])
                                  > pixel_threshold}))]_vars

\* C21 witness: a call on a frame that differs from the reference in some
\* pixels, too few for motion to be reported, has replaced the reference.
C21_Witness ==
    /\ last_call = "has_motion" /\ frame # None
    /\ ~has_motion /\ motion_ratio > 0
    /\ previous_frame = GaussianBlur(cvtColor(frame), blur_size)

\* C22 (as claimed): when the fallback is attempted and some index in 0..3
\* delivers a frame, the camera is the OpenCV capture of the lowest such
\* index, indices that open without delivering a frame being skipped.
C22_FallbackPicksFirstIndexWithFrame ==
    (arg_picam \in {"ImportError", "Exception"} /\ close_results = <<>>
        /\ \E i \in VideoIndices : arg_devices[i] = "ok")
        => (/\ camera_type = "opencv"
            /\ camera_handle =
                  <<"video", Min({i \in VideoIndices : arg_devices[i] = "ok"})>>)

\* C23 (as claimed): before the first save of a run no cooldown applies: a
\* tick on which the motion gate reports motion while nothing has been saved
\* goes on to the object detector, whatever the clock reads.
C23_NoCooldownBeforeFirstSave ==
    [][(pc = "motion" /\ has_motion' /\ saved_count = 0) => pc' = "detect"]_vars

\* C24: whenever the loop arrives at a tick boundary, saved_count <=
\* motion_count <= frame_count and the log holds saved_count rows of this run
\* (the log starts the run without rows); a failed capture and its pacing wait
\* change no counter.
C24_CountersOrdered ==
    [][/\ pc' \in TickBoundary
             => (/\ saved_count' <= motion_count'
                 /\ motion_count' <= frame_count'
                 /\ Len(SelectSeq(log_rows', LAMBDA r : r.kind = "row"))
                       = saved_count')
       /\ ((pc = "capture" /\ pc' = "skip_sleep")
              \/ (pc = "skip_sleep" /\ pc' = "capture"))
             => UNCHANGED count_vars
      ]_vars

\* C24 witness: a tick boundary after a quiet tick, a tick with motion and no
\* save, and a tick with a save.
C24_Witness ==
    /\ pc = "capture"
    /\ saved_count >= 1 /\ motion_count > saved_count
    /\ frame_count > motion_count

====
